---- MODULE Spec2Model ----
(***************************************************************************)
(* Model of the Job data-access entity of express-jobly (models/job.js),   *)
(* the helper sqlForPartialUpdate it calls, and the jobs table the         *)
(* statements run against.  A statement is kept as the structure of its    *)
(* text (verb, SET list, WHERE predicates, each with its $n placeholder)   *)
(* together with the list of bound values, and the database evaluates it   *)
(* by looking every placeholder up in that list.                           *)
(***************************************************************************)
EXTENDS Integers, Sequences, FiniteSets, TLC

VARIABLES jobs, nextId, last, pending

vars == <<jobs, nextId, last, pending>>

(***************************************************************************)
(* Bounds of the model.                                                    *)
(***************************************************************************)
\* Number of rows the serial id sequence of the jobs table hands out.
MaxId == 2
\* Number of keys of a payload handed to sqlForPartialUpdate on its own.
MaxKeys == 2
\* Number of Job.create calls that can be between their two queries at once.
MaxInFlight == 2

(***************************************************************************)
(* JavaScript values.  A string is a sequence of characters.               *)
(***************************************************************************)
Null == [t |-> "null", v |-> 0]
Undefined == [t |-> "undefined", v |-> 0]
Num(n) == [t |-> "number", v |-> n]
Str(s) == [t |-> "string", v |-> s]
Bool(b) == [t |-> "boolean", v |-> b]
\* An object is the sequence of its own properties in insertion order.
Obj(ps) == [t |-> "object", v |-> ps]
Prop(k, x) == [k |-> k, v |-> x]

\* ToBoolean, as applied by if (x), !x and x || y.
Truthy(x) ==
    CASE x.t = "null" -> FALSE
      [] x.t = "undefined" -> FALSE
      [] x.t = "number" -> x.v # 0
      [] x.t = "string" -> x.v # <<>>
      [] x.t = "boolean" -> x.v
      [] OTHER -> TRUE

\* Object.keys(o) and Object.values(o)
Keys(o) == [i \in 1..Len(o.v) |-> o.v[i].k]
Values(o) == [i \in 1..Len(o.v) |-> o.v[i].v]
\* o.k : the property's value, undefined when o has no such property
GetProp(o, k) ==
    IF \E i \in 1..Len(o.v) : o.v[i].k = k
    THEN o.v[CHOOSE i \in 1..Len(o.v) : o.v[i].k = k].v
    ELSE Undefined

\* Errors a call ends with.
NoError == "none"
BadRequestError == "BadRequestError"
NotFoundError == "NotFoundError"
\* any failure of the statement execution itself, propagated unclassified
DbError == "DbError"

(***************************************************************************)
(* Statements.                                                             *)
(***************************************************************************)
\* "<lhs> <op> $<ph>"
Pred(lhs, op, ph) == [lhs |-> lhs, op |-> op, ph |-> ph]
\* "<col>"=$<ph>  (also a column of an INSERT with its VALUES placeholder)
Assign(col, ph) == [col |-> col, ph |-> ph]

Stmt(verb, table, set, hasWhere, where, orderBy, vals) ==
    [verb |-> verb, table |-> table, set |-> set, hasWhere |-> hasWhere,
     where |-> where, orderBy |-> orderBy, vals |-> vals]

\* The placeholders of a statement, in the order they appear in its text.
Placeholders(stmt) ==
    [i \in 1..Len(stmt.set) |-> stmt.set[i].ph] \o
    [i \in 1..Len(stmt.where) |-> stmt.where[i].ph]

Range(s) == {s[i] : i \in 1..Len(s)}

(***************************************************************************)
(* The database behind db.query(text, values): the jobs table, the         *)
(* companies table, and the evaluation of one statement.                   *)
(***************************************************************************)
JobColumns == {"id", "title", "salary", "equity", "company_handle"}

\* "c1", "c2" as character sequences
HandleC1 == <<"c", "1">>
HandleC2 == <<"c", "2">>

Companies ==
    { [handle |-> Str(HandleC1), name |-> Str(<<"C", "1">>),
       description |-> Str(<<"D", "1">>), num_employees |-> Num(1),
       logo_url |-> Null],
      [handle |-> Str(HandleC2), name |-> Str(<<"C", "2">>),
       description |-> Str(<<"D", "2">>), num_employees |-> Num(2),
       logo_url |-> Null] }

\* Characters in collation order (their code points).
Alphabet == <<"%", ".", "0", "1", "2", "5", "J", "N", "_", "j", "n">>
CharRank(c) == CHOOSE i \in 1..Len(Alphabet) : Alphabet[i] = c

\* s sorts before or with t
RECURSIVE TextLeq(_, _)
TextLeq(s, t) ==
    IF s = <<>> THEN TRUE
    ELSE IF t = <<>> THEN FALSE
    ELSE IF Head(s) = Head(t) THEN TextLeq(Tail(s), Tail(t))
    ELSE CharRank(Head(s)) < CharRank(Head(t))

\* LOWER(text)
LowerChar(c) == CASE c = "J" -> "j" [] c = "N" -> "n" [] OTHER -> c
Lower(s) == [i \in 1..Len(s) |-> LowerChar(s[i])]

\* text LIKE pattern: % matches any run of characters, _ any one character
RECURSIVE Like(_, _)
Like(s, p) ==
    IF p = <<>> THEN s = <<>>
    ELSE IF Head(p) = "%" THEN Like(s, Tail(p)) \/ (s # <<>> /\ Like(Tail(s), p))
    ELSE IF s = <<>> THEN FALSE
    ELSE (Head(p) = "_" \/ Head(p) = Head(s)) /\ Like(Tail(s), Tail(p))

\* The value of a NUMERIC literal such as "0", "0.0" or "0.5", in hundredths.
DigitVal(c) == CharRank(c) - CharRank("0")
RECURSIVE DigitsVal(_)
DigitsVal(s) ==
    IF s = <<>> THEN 0
    ELSE 10 * DigitsVal(SubSeq(s, 1, Len(s) - 1)) + DigitVal(s[Len(s)])
NumericOf(s) ==
    LET dot == IF \E i \in 1..Len(s) : s[i] = "."
               THEN CHOOSE i \in 1..Len(s) : s[i] = "."
               ELSE Len(s) + 1
        frac == SubSeq(SubSeq(s, dot + 1, Len(s)) \o <<"0", "0">>, 1, 2)
    IN  100 * DigitsVal(SubSeq(s, 1, dot - 1)) + DigitsVal(frac)

\* The value the expression lhs has in a row.
Cell(row, lhs) ==
    IF lhs = "LOWER(title)"
    THEN (IF row.title.t = "string" THEN Str(Lower(row.title.v)) ELSE row.title)
    ELSE row[lhs]

\* cell <op> param is true (a comparison with NULL is never true)
Compare(lhs, op, cell, param) ==
    IF cell.t = "null" \/ param.t = "null" THEN FALSE
    ELSE CASE op = "=" -> cell = param
           [] op = "LIKE" -> Like(cell.v, param.v)
           [] op = ">=" -> cell.v >= param.v
           [] op = "!=" -> NumericOf(cell.v) # NumericOf(param.v)

\* The statement parses and its placeholders are exactly $1..$(number of
\* bound values): the driver rejects any other statement.
WellFormed(stmt) ==
    /\ Range(Placeholders(stmt)) = 1..Len(stmt.vals)
    /\ stmt.hasWhere => stmt.where # <<>>
    /\ stmt.verb = "UPDATE" => stmt.set # <<>>
    /\ \A i \in 1..Len(stmt.set) : stmt.set[i].col \in JobColumns

Matching(tbl, stmt) ==
    { r \in tbl : \A i \in 1..Len(stmt.where) :
        Compare(stmt.where[i].lhs, stmt.where[i].op,
                Cell(r, stmt.where[i].lhs), stmt.vals[stmt.where[i].ph]) }

\* The row after the SET list (or the INSERT's column list) is applied to it.
Assigned(row, stmt) ==
    [c \in DOMAIN row |->
        IF \E i \in 1..Len(stmt.set) : stmt.set[i].col = c
        THEN stmt.vals[stmt.set[CHOOSE i \in 1..Len(stmt.set) : stmt.set[i].col = c].ph]
        ELSE row[c]]

\* The output columns, renamed by AS.
Project(row, cols) ==
    [a \in {cols[i].as : i \in 1..Len(cols)} |->
        row[cols[CHOOSE i \in 1..Len(cols) : cols[i].as = a].col]]
Col(c) == [col |-> c, as |-> c]
ColAs(c, a) == [col |-> c, as |-> a]

\* The orders in which the rows may come back: any order without ORDER BY,
\* and with ORDER BY title any order that is sorted by title.
Orderings(rows, orderBy) ==
    { s \in [1..Cardinality(rows) -> rows] :
        /\ \A i, j \in 1..Cardinality(rows) : i # j => s[i] # s[j]
        /\ orderBy = "title" =>
             \A i \in 1..(Cardinality(rows) - 1) : TextLeq(s[i].title.v, s[i + 1].title.v) }

\* The primary key: ids are integers, no two rows share one.
KeyOk(tbl) ==
    /\ \A r \in tbl : r.id.t = "number"
    /\ \A r1, r2 \in tbl : r1.id = r2.id => r1 = r2

Failed(js, nid) == [ok |-> FALSE, jobs |-> js, nextId |-> nid, out |-> {<<>>}]

\* db.query(stmt.text, stmt.vals) on jobs table js with serial counter nid:
\* whether it succeeded, the table and counter afterwards, and the row
\* sequences it may return (out).
Exec(js, nid, stmt, cols) ==
    IF ~WellFormed(stmt) THEN Failed(js, nid)
    ELSE CASE stmt.verb = "SELECT" ->
                LET tbl == IF stmt.table = "jobs" THEN js ELSE Companies
                    ord == Orderings(Matching(tbl, stmt), stmt.orderBy)
                IN  [ok |-> TRUE, jobs |-> js, nextId |-> nid,
                     out |-> {[i \in 1..Len(s) |-> Project(s[i], cols)] : s \in ord}]
           [] stmt.verb = "INSERT" ->
                LET blank == [c \in JobColumns |-> IF c = "id" THEN Num(nid) ELSE Null]
                    row == Assigned(blank, stmt)
                    new == js \cup {row}
                IN  IF KeyOk(new) /\ row.id \notin {r.id : r \in js}
                    THEN [ok |-> TRUE, jobs |-> new, nextId |-> nid + 1,
                          out |-> {<<Project(row, cols)>>}]
                    ELSE Failed(js, nid + 1)
           [] stmt.verb = "UPDATE" ->
                LET hit == Matching(js, stmt)
                    upd == {Assigned(r, stmt) : r \in hit}
                    new == (js \ hit) \cup upd
                IN  IF KeyOk(new) /\ Cardinality(new) = Cardinality(js)
                    THEN [ok |-> TRUE, jobs |-> new, nextId |-> nid,
                          out |-> {[i \in 1..Len(s) |-> Project(s[i], cols)] :
                                     s \in Orderings(upd, "")}]
                    ELSE Failed(js, nid)
           [] stmt.verb = "DELETE" ->
                LET hit == Matching(js, stmt)
                IN  [ok |-> TRUE, jobs |-> js \ hit, nextId |-> nid,
                     out |-> {[i \in 1..Len(s) |-> Project(s[i], cols)] :
                                s \in Orderings(hit, "")}]

\* How a call ends: the error thrown (or none), the rows returned, the
\* statements handed to db.query, the helpers called, and the table and
\* serial counter it leaves.
Outcome(err, ret, sent, calls, js, nid) ==
    [err |-> err, ret |-> ret, sent |-> sent, calls |-> calls, jobs |-> js, nextId |-> nid]

(***************************************************************************)
(* helpers/sql.js: sqlForPartialUpdate(dataToUpdate, jsToSql).  A field    *)
(* map jsToSql is a function from property names to column names.          *)
(***************************************************************************)
\* the column a property is written to
ColumnFor(key, jsToSql) == IF key \in DOMAIN jsToSql THEN jsToSql[key] ELSE key

\* the helper numbering its placeholders from $0
sqlForPartialUpdate_ZeroBased(dataToUpdate, jsToSql) ==
    LET keys == Keys(dataToUpdate)
    IN  IF Len(keys) = 0
        THEN [err |-> BadRequestError, setCols |-> <<>>, values |-> <<>>]
        ELSE [err |-> NoError,
              setCols |-> [i \in 1..Len(keys) |-> Assign(ColumnFor(keys[i], jsToSql), i - 1)],
              values |-> Values(dataToUpdate)]

\* [err, setCols, values]; setCols is the list of "<col>"=$<n> fragments
\* that the text joins with ", ".
sqlForPartialUpdate(dataToUpdate, jsToSql) ==
    LET keys == Keys(dataToUpdate)
    IN  IF Len(keys) = 0
        THEN [err |-> BadRequestError, setCols |-> <<>>, values |-> <<>>]
        ELSE [err |-> NoError,
              setCols |-> [i \in 1..Len(keys) |-> Assign(ColumnFor(keys[i], jsToSql), i)],
              values |-> Values(dataToUpdate)]

(***************************************************************************)
(* models/job.js                                                           *)
(***************************************************************************)
\* a parameter with the default value null
Default(x) == IF x = Undefined THEN Null ELSE x

JobReturning ==
    <<Col("id"), Col("title"), Col("salary"), Col("equity"),
      ColAs("company_handle", "companyHandle")>>

\* the duplicate check with its two values bound the other way round
DuplicateCheckStmt_SwappedValues(title, companyHandle) ==
    Stmt("SELECT", "jobs", <<>>, TRUE,
         <<Pred("company_handle", "=", 1), Pred("title", "=", 2)>>, "",
         <<title, companyHandle>>)

\* Job.create: the duplicate check
DuplicateCheckStmt(title, companyHandle) ==
    Stmt("SELECT", "jobs", <<>>, TRUE,
         <<Pred("company_handle", "=", 1), Pred("title", "=", 2)>>, "",
         <<companyHandle, title>>)

\* Job.create: the INSERT
InsertStmt(title, salary, equity, companyHandle) ==
    Stmt("INSERT", "jobs",
         <<Assign("title", 1), Assign("salary", 2), Assign("equity", 3),
           Assign("company_handle", 4)>>,
         FALSE, <<>>, "", <<title, salary, equity, companyHandle>>)

\* Job.create({ title, salary, equity, companyHandle }): the outcomes
Create(js, nid, title, salary, equity, companyHandle) ==
    LET dupStmt == DuplicateCheckStmt(title, companyHandle)
        dup == Exec(js, nid, dupStmt, <<Col("title")>>)
        insStmt == InsertStmt(title, salary, equity, companyHandle)
        ins == Exec(js, nid, insStmt, JobReturning)
    IN  IF ~dup.ok
        THEN {Outcome(DbError, <<>>, <<dupStmt>>, <<>>, js, nid)}
        ELSE IF \E rows \in dup.out : rows # <<>>
        THEN {Outcome(BadRequestError, <<>>, <<dupStmt>>, <<>>, js, nid)}
        ELSE IF ~ins.ok
        THEN {Outcome(DbError, <<>>, <<dupStmt, insStmt>>, <<>>, ins.jobs, ins.nextId)}
        ELSE {Outcome(NoError, <<rows[1]>>, <<dupStmt, insStmt>>, <<>>, ins.jobs, ins.nextId) :
                rows \in ins.out}

\* the filters with idx left as it was after the salary predicate
FindAllFilters_SharedIndex(title, minSalary, hasEquity) ==
    LET s0 == [filters |-> <<>>, values |-> <<>>, idx |-> 1]
        s1 == IF Truthy(title)
              THEN [filters |-> Append(s0.filters, Pred("LOWER(title)", "LIKE", s0.idx)),
                    values |-> Append(s0.values, Str(<<"%">> \o title.v \o <<"%">>)),
                    idx |-> s0.idx + 1]
              ELSE s0
        s2 == IF Truthy(minSalary)
              THEN [filters |-> Append(s1.filters, Pred("salary", ">=", s1.idx)),
                    values |-> Append(s1.values, minSalary),
                    idx |-> s1.idx]
              ELSE s1
        s3 == IF Truthy(hasEquity)
              THEN [filters |-> Append(s2.filters, Pred("equity", "!=", s2.idx)),
                    values |-> Append(s2.values, Str(<<"0">>)),
                    idx |-> s2.idx + 1]
              ELSE s2
    IN  s3

\* Job.findAll: the filters, the values and idx after the three tests
FindAllFilters(title, minSalary, hasEquity) ==
    LET s0 == [filters |-> <<>>, values |-> <<>>, idx |-> 1]
        s1 == IF Truthy(title)
              THEN [filters |-> Append(s0.filters, Pred("LOWER(title)", "LIKE", s0.idx)),
                    values |-> Append(s0.values, Str(<<"%">> \o title.v \o <<"%">>)),
                    idx |-> s0.idx + 1]
              ELSE s0
        s2 == IF Truthy(minSalary)
              THEN [filters |-> Append(s1.filters, Pred("salary", ">=", s1.idx)),
                    values |-> Append(s1.values, minSalary),
                    idx |-> s1.idx + 1]
              ELSE s1
        s3 == IF Truthy(hasEquity)
              THEN [filters |-> Append(s2.filters, Pred("equity", "!=", s2.idx)),
                    values |-> Append(s2.values, Str(<<"0">>)),
                    idx |-> s2.idx + 1]
              ELSE s2
    IN  s3

\* the statement always built with WHERE (...)
FindAllStmt_AlwaysWhere(filters, values) ==
    Stmt("SELECT", "jobs", <<>>, TRUE, filters, "title", values)

\* Job.findAll: the statement sent, with or without WHERE (...)
FindAllStmt(filters, values) ==
    IF Len(filters) > 0
    THEN Stmt("SELECT", "jobs", <<>>, TRUE, filters, "title", values)
    ELSE Stmt("SELECT", "jobs", <<>>, FALSE, <<>>, "title", <<>>)

FindAllColumns ==
    <<Col("title"), Col("salary"), Col("equity"), ColAs("company_handle", "companyHandle")>>

\* Job.findAll(title, minSalary, hasEquity): the outcomes
FindAll(js, nid, title, minSalary, hasEquity) ==
    LET f == FindAllFilters(Default(title), Default(minSalary), Default(hasEquity))
        stmt == FindAllStmt(f.filters, f.values)
        res == Exec(js, nid, stmt, FindAllColumns)
    IN  IF ~res.ok
        THEN {Outcome(DbError, <<>>, <<stmt>>, <<>>, js, nid)}
        ELSE {Outcome(NoError, rows, <<stmt>>, <<>>, js, nid) : rows \in res.out}

\* Job.get: the two SELECTs
GetJobStmt(id) ==
    Stmt("SELECT", "jobs", <<>>, TRUE, <<Pred("id", "=", 1)>>, "", <<id>>)
GetCompanyStmt(handle) ==
    Stmt("SELECT", "companies", <<>>, TRUE, <<Pred("handle", "=", 1)>>, "", <<handle>>)
GetJobColumns ==
    <<Col("id"), Col("title"), Col("salary"), Col("equity"), ColAs("company_handle", "company")>>
GetCompanyColumns ==
    <<Col("handle"), Col("name"), Col("description"), Col("num_employees"), Col("logo_url")>>

\* Job.get(id): the outcomes
Get(js, nid, id) ==
    LET jobStmt == GetJobStmt(id)
        jobRes == Exec(js, nid, jobStmt, GetJobColumns)
    IN  IF ~jobRes.ok
        THEN {Outcome(DbError, <<>>, <<jobStmt>>, <<>>, js, nid)}
        ELSE UNION { IF rows = <<>>
                     THEN {Outcome(NotFoundError, <<>>, <<jobStmt>>, <<>>, js, nid)}
                     ELSE LET job == rows[1]
                              coStmt == GetCompanyStmt(job.company)
                              coRes == Exec(js, nid, coStmt, GetCompanyColumns)
                          IN  { Outcome(NoError,
                                        <<[job EXCEPT !.company =
                                             IF cos = <<>> THEN Undefined ELSE cos[1]]>>,
                                        <<jobStmt, coStmt>>, <<>>, js, nid) :
                                  cos \in coRes.out }
                   : rows \in jobRes.out }

\* the field map Job.update passes to sqlForPartialUpdate
JobJsToSql == [k \in {"companyHandle"} |-> "company_handle"]

\* the id placeholder restarting at $1
IdVarIdx_Restart(values) == 1

\* Job.update: "$" + (values.length + 1)
IdVarIdx(values) == Len(values) + 1

\* Job.update: the values bound, [...values, id]
UpdateBindings(values, id) == Append(values, id)

\* the UPDATE without its WHERE id = $n
UpdateStmt_AllRows(setCols, values, id) ==
    Stmt("UPDATE", "jobs", setCols, FALSE, <<>>, "", values)

\* Job.update: the UPDATE statement
UpdateStmt(setCols, values, id) ==
    Stmt("UPDATE", "jobs", setCols, TRUE, <<Pred("id", "=", IdVarIdx(values))>>, "",
         UpdateBindings(values, id))

\* Job.update: the test that rejects a change of id or companyHandle
ChangesIdentity(data) ==
    Truthy(GetProp(data, "id")) \/ Truthy(GetProp(data, "companyHandle"))

\* the checks with the error of sqlForPartialUpdate not propagated
UpdateBuild_IgnoresHelperError(data) ==
    IF ~Truthy(data)
    THEN [err |-> BadRequestError, calls |-> <<>>, setCols |-> <<>>, values |-> <<>>]
    ELSE IF ChangesIdentity(data)
    THEN [err |-> BadRequestError, calls |-> <<>>, setCols |-> <<>>, values |-> <<>>]
    ELSE LET built == sqlForPartialUpdate(data, JobJsToSql)
         IN  [err |-> NoError, calls |-> <<"sqlForPartialUpdate">>,
              setCols |-> built.setCols, values |-> built.values]

\* Job.update before its query: the two checks of data, then the call of
\* sqlForPartialUpdate, whose error is thrown on
UpdateBuild(data) ==
    IF ~Truthy(data)
    THEN [err |-> BadRequestError, calls |-> <<>>, setCols |-> <<>>, values |-> <<>>]
    ELSE IF ChangesIdentity(data)
    THEN [err |-> BadRequestError, calls |-> <<>>, setCols |-> <<>>, values |-> <<>>]
    ELSE LET built == sqlForPartialUpdate(data, JobJsToSql)
         IN  [err |-> built.err, calls |-> <<"sqlForPartialUpdate">>,
              setCols |-> built.setCols, values |-> built.values]

\* Job.update(id, data): the outcomes
Update(js, nid, id, data) ==
    LET b == UpdateBuild(data)
        stmt == UpdateStmt(b.setCols, b.values, id)
        res == Exec(js, nid, stmt, JobReturning)
    IN  IF b.err # NoError
        THEN {Outcome(b.err, <<>>, <<>>, b.calls, js, nid)}
        ELSE IF ~res.ok
        THEN {Outcome(DbError, <<>>, <<stmt>>, b.calls, js, nid)}
        ELSE { IF rows = <<>>
               THEN Outcome(NotFoundError, <<>>, <<stmt>>, b.calls, res.jobs, res.nextId)
               ELSE Outcome(NoError, <<rows[1]>>, <<stmt>>, b.calls, res.jobs, res.nextId)
             : rows \in res.out }

\* Job.remove: the DELETE
RemoveStmt(id) ==
    Stmt("DELETE", "jobs", <<>>, TRUE, <<Pred("id", "=", 1)>>, "", <<id>>)

\* Job.remove without the test of the deleted row
Remove_NeverNotFound(js, nid, id) ==
    LET stmt == RemoveStmt(id)
        res == Exec(js, nid, stmt, <<Col("id")>>)
    IN  IF ~res.ok
        THEN {Outcome(DbError, <<>>, <<stmt>>, <<>>, js, nid)}
        ELSE {Outcome(NoError, <<>>, <<stmt>>, <<>>, res.jobs, res.nextId)}

\* Job.remove(id): the outcomes
Remove(js, nid, id) ==
    LET stmt == RemoveStmt(id)
        res == Exec(js, nid, stmt, <<Col("id")>>)
    IN  IF ~res.ok
        THEN {Outcome(DbError, <<>>, <<stmt>>, <<>>, js, nid)}
        ELSE { IF rows = <<>>
               THEN Outcome(NotFoundError, <<>>, <<stmt>>, <<>>, res.jobs, res.nextId)
               ELSE Outcome(NoError, <<>>, <<stmt>>, <<>>, res.jobs, res.nextId)
             : rows \in res.out }

(***************************************************************************)
(* The calls made on the model, and their arguments.  last records the     *)
(* call that has just ended until its caller has taken the result.         *)
(***************************************************************************)
TitleJ1 == <<"j", "1">>
TitleJ2 == <<"J", "2">>
TitleN == <<"n">>

NewJob(title, salary, equity, companyHandle) ==
    [title |-> title, salary |-> salary, equity |-> equity, companyHandle |-> companyHandle]

CreateInputs ==
    { NewJob(Str(TitleJ1), Num(1), Str(<<"0">>), Str(HandleC1)),
      NewJob(Str(TitleJ2), Num(2), Str(<<"0", ".", "5">>), Str(HandleC2)),
      NewJob(Str(TitleJ1), Null, Null, Str(HandleC2)) }

\* ids 1..MaxId are handed out by the table; 0 and MaxId + 1 never are
JobIds == {Num(i) : i \in 0..(MaxId + 1)}

UpdateInputs ==
    { Null,
      Obj(<<>>),
      Obj(<<Prop("title", Str(TitleJ2))>>),
      Obj(<<Prop("title", Str(TitleN)), Prop("salary", Null), Prop("equity", Null)>>),
      Obj(<<Prop("equity", Str(<<"0", ".", "0">>)), Prop("salary", Num(0))>>),
      Obj(<<Prop("id", Num(2))>>),
      Obj(<<Prop("id", Num(0))>>),
      Obj(<<Prop("id", Null)>>),
      Obj(<<Prop("companyHandle", Str(HandleC2))>>) }

\* Job.findAll() and Job.findAll(title, minSalary, hasEquity)
FindAllInputs ==
    {<<Undefined, Undefined, Undefined>>} \cup
    ( {Null, Str(<<>>), Str(<<"j">>)} \X {Null, Num(0), Num(-1), Num(2)} \X
      {Null, Bool(FALSE), Bool(TRUE)} )

Idle ==
    [op |-> "none", args |-> <<>>, err |-> NoError, ret |-> <<>>,
     sent |-> <<>>, calls |-> <<>>, before |-> {}]

\* the Job.create calls in flight: pending[c] holds the job of a call that
\* has run its duplicate check and not yet its INSERT, and is empty otherwise
Callers == 1..MaxInFlight

Call(op, args, o) ==
    /\ UNCHANGED pending
    /\ jobs' = o.jobs
    /\ nextId' = o.nextId
    /\ last' = [op |-> op, args |-> args, err |-> o.err, ret |-> o.ret,
                sent |-> o.sent, calls |-> o.calls, before |-> jobs]

Init ==
    /\ jobs = {}
    /\ nextId = 1
    /\ last = Idle
    /\ pending = [c \in Callers |-> <<>>]

JobCreate ==
    /\ last = Idle
    /\ nextId <= MaxId
    /\ \E d \in CreateInputs :
         \E o \in Create(jobs, nextId, d.title, d.salary, d.equity, d.companyHandle) :
            Call("create", <<d>>, o)

JobFindAll ==
    /\ last = Idle
    /\ \E a \in FindAllInputs :
         \E o \in FindAll(jobs, nextId, a[1], a[2], a[3]) : Call("findAll", a, o)

JobGet ==
    /\ last = Idle
    /\ \E id \in JobIds : \E o \in Get(jobs, nextId, id) : Call("get", <<id>>, o)

JobUpdate ==
    /\ last = Idle
    /\ \E id \in JobIds, data \in UpdateInputs :
         \E o \in Update(jobs, nextId, id, data) : Call("update", <<id, data>>, o)

JobRemove ==
    /\ last = Idle
    /\ \E id \in JobIds : \E o \in Remove(jobs, nextId, id) : Call("remove", <<id>>, o)

\* the caller takes the result (or the error) of the call
Return ==
    /\ last # Idle
    /\ last' = Idle
    /\ UNCHANGED <<jobs, nextId, pending>>

Next ==
    \/ JobCreate
    \/ JobFindAll
    \/ JobGet
    \/ JobUpdate
    \/ JobRemove
    \/ Return

Spec == Init /\ [][Next]_vars

(***************************************************************************)
(* sqlForPartialUpdate called on its own, over every payload of at most    *)
(* MaxKeys keys and a few field maps.                                      *)
(***************************************************************************)
HelperProps ==
    { Prop(k, x) : k \in {"title", "salary", "companyHandle", "numEmployees"},
                   x \in {Null, Num(5), Str(TitleN)} }

HelperPayloads ==
    UNION { { Obj(f) : f \in { g \in [1..n -> HelperProps] :
                                 \A i, j \in 1..n : i # j => g[i].k # g[j].k } }
            : n \in 0..MaxKeys }

HelperFieldMaps ==
    { JobJsToSql,
      [k \in {} |-> ""],
      [k \in {"numEmployees", "title"} |->
          IF k = "numEmployees" THEN "num_employees" ELSE "title"] }

\* sqlForPartialUpdate(data, jsToSql): how the call ends
HelperOutcome(data, jsToSql) ==
    LET r == sqlForPartialUpdate(data, jsToSql)
    IN  Outcome(r.err, <<[setCols |-> r.setCols, values |-> r.values]>>,
                <<>>, <<>>, jobs, nextId)

HelperCall ==
    /\ last = Idle
    /\ \E data \in HelperPayloads, jsToSql \in HelperFieldMaps :
         Call("sqlForPartialUpdate", <<data, jsToSql>>, HelperOutcome(data, jsToSql))

HelperNext ==
    \/ HelperCall
    \/ Return

HelperSpec == Init /\ [][HelperNext]_vars

(***************************************************************************)
(* Calls of Job.create, Job.update and Job.remove in flight at once: every *)
(* db.query is one step on the table.  What a call does before its first   *)
(* query touches nothing shared and is taken together with that query, so  *)
(* Job.update and Job.remove are one step each and Job.create is two, the  *)
(* duplicate check and the INSERT, with other calls' steps in between.     *)
(***************************************************************************)
ConcUpdateInputs ==
    { Obj(<<Prop("title", Str(TitleJ2))>>),
      Obj(<<Prop("title", Str(TitleN)), Prop("salary", Null), Prop("equity", Null)>>) }

\* Job.create up to its first await ends: the duplicate check has run, and
\* the call either throws BadRequest or goes on to its INSERT
ConcCreateCheck ==
    \E c \in Callers, d \in CreateInputs :
        /\ pending[c] = <<>>
        /\ nextId + Cardinality({k \in Callers : pending[k] # <<>>}) <= MaxId
        /\ LET dup == Exec(jobs, nextId, DuplicateCheckStmt(d.title, d.companyHandle),
                           <<Col("title")>>)
           IN  pending' = IF dup.ok /\ \A rows \in dup.out : rows = <<>>
                          THEN [pending EXCEPT ![c] = <<d>>]
                          ELSE pending
        /\ UNCHANGED <<jobs, nextId, last>>

\* Job.create after the duplicate check: the INSERT
ConcCreateInsert ==
    \E c \in Callers :
        /\ pending[c] # <<>>
        /\ LET d == pending[c][1]
               ins == Exec(jobs, nextId,
                           InsertStmt(d.title, d.salary, d.equity, d.companyHandle),
                           JobReturning)
           IN  /\ jobs' = ins.jobs
               /\ nextId' = ins.nextId
        /\ pending' = [pending EXCEPT ![c] = <<>>]
        /\ UNCHANGED last

\* Job.update: its one query
ConcUpdate ==
    \E id \in JobIds, data \in ConcUpdateInputs :
        \E o \in Update(jobs, nextId, id, data) :
            /\ jobs' = o.jobs
            /\ nextId' = o.nextId
            /\ UNCHANGED <<last, pending>>

\* Job.remove: its one query
ConcRemove ==
    \E id \in JobIds :
        \E o \in Remove(jobs, nextId, id) :
            /\ jobs' = o.jobs
            /\ nextId' = o.nextId
            /\ UNCHANGED <<last, pending>>

ConcNext ==
    \/ ConcCreateCheck
    \/ ConcCreateInsert
    \/ ConcUpdate
    \/ ConcRemove

ConcSpec == Init /\ [][ConcNext]_vars

(***************************************************************************)
(* Properties.                                                             *)
(***************************************************************************)
\* the statement of the call that has just ended, and its parts
SentStmt == last.sent[1]
Ops(preds) == [i \in 1..Len(preds) |-> preds[i].op]
Iota(n) == [i \in 1..n |-> i]
\* a criterion is present when a value is supplied for it
Present(x) == x # Undefined /\ x # Null
\* a row as findAll returns it, and as create and update return it
AsListed(r) ==
    [title |-> r.title, salary |-> r.salary, equity |-> r.equity,
     companyHandle |-> r.company_handle]
AsReturned(r) ==
    [id |-> r.id, title |-> r.title, salary |-> r.salary, equity |-> r.equity,
     companyHandle |-> r.company_handle]
\* rows lists every row of tbl once, in some order
ListsAll(rows, tbl) ==
    /\ Len(rows) = Cardinality(tbl)
    /\ \E f \in [1..Len(rows) -> tbl] :
         /\ \A i, j \in 1..Len(rows) : i # j => f[i] # f[j]
         /\ \A i \in 1..Len(rows) : rows[i] = AsListed(f[i])

\* C1: in every statement Job.findAll sends, the placeholders of the WHERE
\* fragments are $1..$k in left-to-right order, k being the number of bound
\* values, and the Nth value is the one of the Nth fragment's predicate: the
\* %title% pattern for LIKE, the threshold for >=, "0" for !=.
C1_PlaceholdersFollowValues ==
    last.op = "findAll" =>
        /\ Len(last.sent) = 1
        /\ Len(SentStmt.vals) = Len(SentStmt.where)
        /\ \A i \in 1..Len(SentStmt.where) :
             /\ SentStmt.where[i].ph = i
             /\ SentStmt.where[i].op = "LIKE" =>
                  SentStmt.vals[i] = Str(<<"%">> \o last.args[1].v \o <<"%">>)
             /\ SentStmt.where[i].op = ">=" => SentStmt.vals[i] = last.args[2]
             /\ SentStmt.where[i].op = "!=" => SentStmt.vals[i] = Str(<<"0">>)

\* C1 witness: a findAll with all three filters has run
C1_Witness ==
    /\ last.op = "findAll"
    /\ last.err = NoError
    /\ Ops(SentStmt.where) = <<"LIKE", ">=", "!=">>
    /\ Len(last.ret) > 0

\* C2: Job.findAll emits one predicate for every criterion a value is
\* supplied for, hasEquity = false excepted, in the order LIKE, >=, !=.
C2_OnePredicatePerCriterion ==
    last.op = "findAll" =>
        Ops(SentStmt.where) =
            (IF Present(last.args[1]) THEN <<"LIKE">> ELSE <<>>) \o
            (IF Present(last.args[2]) THEN <<">=">> ELSE <<>>) \o
            (IF Present(last.args[3]) /\ last.args[3] # Bool(FALSE) THEN <<"!=">> ELSE <<>>)

\* C3: when Job.findAll produces no predicate its statement has no WHERE
\* and no bound values, and Job.findAll(null, null, false) and Job.findAll()
\* both send that statement and return every job of the table.
C3_NoPredicateNoWhere ==
    last.op = "findAll" =>
        /\ SentStmt.where = <<>> =>
             /\ ~SentStmt.hasWhere
             /\ SentStmt.vals = <<>>
        /\ last.args \in {<<Undefined, Undefined, Undefined>>, <<Null, Null, Bool(FALSE)>>} =>
             /\ last.sent = <<Stmt("SELECT", "jobs", <<>>, FALSE, <<>>, "title", <<>>)>>
             /\ last.err = NoError
             /\ ListsAll(last.ret, last.before)

\* C3 witness: Job.findAll(null, null, false) has run on a table of two jobs
C3_Witness ==
    /\ last.op = "findAll"
    /\ last.args = <<Null, Null, Bool(FALSE)>>
    /\ Cardinality(last.before) >= 2
    /\ Len(last.ret) >= 2

C5_EmptyPayloadRejected ==
    /\ \A m \in HelperFieldMaps : sqlForPartialUpdate(Obj(<<>>), m).err = BadRequestError
    /\ (last.op = "update" /\ last.args[2] = Obj(<<>>)) =>
          /\ last.err = BadRequestError
          /\ last.sent = <<>>
          /\ jobs = last.before

\* C5 witness: Job.update(id, {}) has run with the id of an existing job
C5_Witness ==
    /\ last.op = "update"
    /\ last.args[2] = Obj(<<>>)
    /\ \E r \in last.before : r.id = last.args[1]

\* C6: the statement Job.update sends for a payload of n keys numbers its
\* SET fragments $1..$n and its id predicate $(n+1), and binds the payload's
\* values followed by id.
C6_IdPlaceholderContinues ==
    (last.op = "update" /\ last.sent # <<>>) =>
        LET n == Len(last.args[2].v)
        IN  /\ Len(last.sent) = 1
            /\ [i \in 1..Len(SentStmt.set) |-> SentStmt.set[i].ph] = Iota(n)
            /\ SentStmt.where = <<Pred("id", "=", n + 1)>>
            /\ SentStmt.vals = Values(last.args[2]) \o <<last.args[1]>>
            /\ Placeholders(SentStmt) = Iota(Len(SentStmt.vals))

\* C6 witness: an update with a three-key payload has changed a row
C6_Witness ==
    /\ last.op = "update"
    /\ last.err = NoError
    /\ Len(last.args[2].v) = 3
    /\ jobs # last.before

\* a non-empty payload that names neither id nor companyHandle
ValidPayload(data) ==
    /\ data.t = "object"
    /\ data.v # <<>>
    /\ \A i \in 1..Len(data.v) : data.v[i].k \notin {"id", "companyHandle"}

\* C7: Job.get, Job.update with a valid non-empty payload and Job.remove,
\* called with an id no row has, raise NotFound and leave the table as it was.
C7_NotFoundLeavesTable ==
    ( /\ \/ last.op \in {"get", "remove"}
         \/ (last.op = "update" /\ ValidPayload(last.args[2]))
      /\ \A r \in last.before : r.id # last.args[1] ) =>
        /\ last.err = NotFoundError
        /\ jobs = last.before

\* C7 witness: an update of a missing id on a table that has jobs
C7_Witness ==
    /\ last.op = "update"
    /\ ValidPayload(last.args[2])
    /\ last.before # {}
    /\ \A r \in last.before : r.id # last.args[1]
    /\ last.err = NotFoundError

\* C8: Job.create with a (title, companyHandle) a row already has raises
\* BadRequest without sending an INSERT and leaves the table as it was; with
\* any other pair it adds exactly one row, with the given title, salary,
\* equity and companyHandle, and returns it.
C8_CreateChecksDuplicate ==
    last.op = "create" =>
        LET d == last.args[1]
        IN  IF \E r \in last.before : r.title = d.title /\ r.company_handle = d.companyHandle
            THEN /\ last.err = BadRequestError
                 /\ \A i \in 1..Len(last.sent) : last.sent[i].verb # "INSERT"
                 /\ jobs = last.before
            ELSE /\ last.err = NoError
                 /\ \E r \in jobs :
                      /\ r \notin last.before
                      /\ jobs = last.before \cup {r}
                      /\ \A q \in last.before : q.id # r.id
                      /\ AsListed(r) = d
                      /\ last.ret = <<AsReturned(r)>>

\* C8 witness: a create was refused as a duplicate
C8_Witness ==
    /\ last.op = "create"
    /\ last.err = BadRequestError
    /\ last.before # {}

\* C9: Job.update raises BadRequest, before sqlForPartialUpdate is called
\* and before any statement is sent, for every payload with a key id or
\* companyHandle, whatever its value; so no update changes the id or the
\* company_handle of a job.
C9_IdentityNeverChanged ==
    last.op = "update" =>
        /\ ( /\ last.args[2].t = "object"
             /\ \E i \in 1..Len(last.args[2].v) :
                  last.args[2].v[i].k \in {"id", "companyHandle"} ) =>
               /\ last.err = BadRequestError
               /\ last.calls = <<>>
               /\ last.sent = <<>>
        /\ {<<r.id, r.company_handle>> : r \in jobs} =
             {<<r.id, r.company_handle>> : r \in last.before}

\* the column a key of Job.update's payload names
NamedColumn(k) == IF k = "companyHandle" THEN "company_handle" ELSE k

\* C10: a successful Job.update(id, data) changes, in the row with that id
\* and in no other, the columns the keys of data name to the given values
\* (null included) and nothing else, and returns the row as it is stored.
C10_UpdateChangesNamedColumnsOnly ==
    (last.op = "update" /\ last.err = NoError) =>
        LET id == last.args[1]
            p == last.args[2].v
        IN  \E r \in last.before :
              /\ r.id = id
              /\ LET r2 == [c \in JobColumns |->
                              IF \E i \in 1..Len(p) : NamedColumn(p[i].k) = c
                              THEN p[CHOOSE i \in 1..Len(p) : NamedColumn(p[i].k) = c].v
                              ELSE r[c]]
                 IN  /\ jobs = (last.before \ {r}) \cup {r2}
                     /\ last.ret = <<AsReturned(r2)>>

\* C10 witness: an update that set salary to null has changed one row of two
C10_Witness ==
    /\ last.op = "update"
    /\ last.err = NoError
    /\ GetProp(last.args[2], "salary") = Null
    /\ Cardinality(last.before) >= 2
    /\ jobs # last.before

\* C11: in every state that calls of Job.create, Job.update and Job.remove
\* reach from a table without two rows of the same (title, companyHandle),
\* whatever their order or interleaving, no two rows of the jobs table have
\* the same (title, companyHandle).
C11_TitleUniquePerCompany ==
    \A r1, r2 \in jobs :
        (r1.title = r2.title /\ r1.company_handle = r2.company_handle) => r1 = r2

====
